---- MODULE Spec2Model ----
(***************************************************************************)
(* The job-orchestration core of the FaceFusion API service                *)
(* (src/backend/jobs.py, src/backend/app.py): the persisted job records,   *)
(* the two lane queues with one worker task each, the runner thread that   *)
(* supervises the engine subprocess, and the client handlers.              *)
(*                                                                         *)
(* One step of the model is one uninterrupted stretch of code:             *)
(*  - a coroutine of the event loop from one suspension point (await that  *)
(*    really suspends) to the next;                                        *)
(*  - for the runner thread, which runs beside the event loop, the part of *)
(*    update_job up to the end of load_job, and the part from there to the *)
(*    end of save_job (JOB_LOCK is released in between).                   *)
(* A handler of the event loop that loads and saves without suspending is  *)
(* one step: the only code that can run between its load and its save is a *)
(* runner thread's load or save, and the record such a handler saves is    *)
(* the one it would save had it run before that runner step.               *)
(***************************************************************************)
EXTENDS Integers, Sequences, FiniteSets, Bags, TLC

\* ------------------------------------------------------------------ bounds
MaxOps == 3         \* client requests that are served (not rejected) in a run
MaxCrashes == 1     \* process crashes followed by a restart
MaxFaults == 1      \* injected store I/O errors
MaxPushes == 2      \* posts per job and event that are counted; more count as this

\* --------------------------------------------------------------- constants
Null == "null"
Lanes == {"image", "video"}
Users == {"u1", "u2"}
\* The users that create jobs in the model; u2 only calls on jobs of u1.
Owners == {"u1"}
Ids == 1..MaxOps
Events == {"queued", "running", "completed", "failed"}

\* A mode is its name split at the underscores.
ALLOWED_MODES ==
    { <<"photo", "video", "fast">>, <<"photo", "video", "quality">>,
      <<"photo", "photo", "gpen">>, <<"photo", "photo", "codeformer">> }

DEFAULT_MODE == <<"photo", "video", "fast">>

\* The modes client requests carry: one per target kind and one unknown mode.
RequestModes == { <<"photo", "video", "fast">>, <<"photo", "photo", "gpen">>, <<"bogus">> }

startswith(s, prefix) ==
    /\ Len(s) >= Len(prefix)
    /\ SubSeq(s, 1, Len(prefix)) = prefix

\* A target kind that does not depend on the mode.
always_image(mode) == "image"

allowed_target_kind(mode) ==
    IF startswith(mode, <<"photo", "video">>) THEN "video" ELSE "image"

\* The keys of a job record that the model keeps (timestamps and the
\* reference frame number are left out: no step reads them).
Fields ==
    { "job_id", "owner_id", "mode", "target_kind", "status", "source_path",
      "target_path", "output_path", "progress", "stage", "webhook_url",
      "webhook_events", "webhook_last_error", "error" }

\* webhook_events: None is the empty set (the code never stores an empty list).
create_job_record(owner_id, mode, job_id) ==
    [ job_id |-> job_id, owner_id |-> owner_id, mode |-> mode,
      target_kind |-> allowed_target_kind(mode), status |-> "waiting_source",
      source_path |-> Null, target_path |-> Null, output_path |-> Null,
      progress |-> 0, stage |-> Null, webhook_url |-> Null,
      webhook_events |-> {}, webhook_last_error |-> Null, error |-> Null ]

\* The value of a local that holds no record.
NoJob == [ job_id |-> 0 ]

\* The history of a job: the set_webhook calls served for it ("all",
\* "completed", and "early" for one served before the job was ever
\* submitted), how often a request was made to its webhook per event (counted
\* up to MaxPushes), whether such a request raised, how often a job-run
\* subprocess was started for it, and the exit codes of its runs.
NoHistory ==
    [ hooks |-> {}, pushes |-> [e \in Events |-> 0], undelivered |-> FALSE,
      runs |-> 0, exits |-> {} ]

\* No subscription has been opened.
NoStream == [ state |-> "none" ]

\* No thread is inside a `with JOB_LOCK` block.
Unlocked == [ holder |-> "free" ]

\* No line has been read.
NoLine == [ state |-> "none" ]

VARIABLES
    store,      \* the files of API_JOBS_PATH: job id -> persisted record
    queue,      \* app.state.queue_<kind>: sequence of job ids
    running,    \* app.state.running_<kind>
    pc,         \* where each lane's worker task is
    wjob,       \* the worker's local dict `job`
    run,        \* the runner thread of the lane: off, lines, update, exit0, exit1
    rjob,       \* the runner thread's local `job` inside update_job
    executing,  \* number of job-run subprocesses of the lane that have not exited
    reqs,       \* client handlers suspended at an await: a bag of (op, local `job`)
    enqueued,   \* history: per lane, the ids put on the queue, in order
    started,    \* history: per lane, the ids the worker saved as running, in order
    finished,   \* history: per lane, the ids the worker saved as completed/failed
    notes,      \* history: per lane, the events send_webhook was called with in the run
    lost,       \* history: some save wrote back a field another save had changed
    left,       \* number of client requests the run may still serve
    crashes,    \* number of crashes so far
    faults,     \* number of injected I/O errors so far
    torn,       \* ids whose file holds a partly written record
    stream,     \* the subscription of GET /jobs/{id}/events the model follows
    stdout,     \* a line of the engine's output and what parse_progress made of it
    code,       \* the status code of the last response
    log,        \* history: per job, its webhook settings, posts and exit codes
    lock,       \* JOB_LOCK: who is inside a `with JOB_LOCK` block, and for what
    loop,       \* the job whose engine calls the event loop's thread waits for
    job_queue,      \* bot: bot_data["job_queue_<kind>"], the job ids of its tuples
    job_running,    \* bot: bot_data["job_running_<kind>"]
    bot_pc,         \* bot: where each job_worker task is
    bot_executing,  \* bot: job-run subprocesses of the lane that have not exited
    bot_jobs        \* bot: number of engine jobs enqueue_job has created

vars ==
    << store, queue, running, pc, wjob, run, rjob, executing, reqs,
       enqueued, started, finished, notes, lost, left, crashes, faults,
       torn, stream, stdout, code, log, lock, loop,
       job_queue, job_running, bot_pc, bot_executing, bot_jobs >>

laneVars == << queue, running, pc, wjob, run, rjob, executing >>
histVars == << enqueued, started, finished, notes, log >>
envVars == << crashes, faults, torn, stream, stdout >>
botVars == << job_queue, job_running, bot_pc, bot_executing, bot_jobs >>
\* What a step of the API's event loop or runner threads leaves alone unless
\* it says otherwise: the bot, who holds JOB_LOCK, and the event loop's
\* thread not being inside a blocking call.
restVars == << botVars, lock, loop >>
apiVars ==
    << store, queue, running, pc, wjob, run, rjob, executing, reqs,
       enqueued, started, finished, notes, lost, crashes, faults,
       torn, stream, stdout, code, log, lock, loop >>

\* The state after startup (start_workers) with an empty jobs directory; the
\* run serves at most `requests` client requests.
Start(requests) ==
    /\ store = << >>
    /\ queue = [k \in Lanes |-> << >>]
    /\ running = [k \in Lanes |-> FALSE]
    /\ pc = [k \in Lanes |-> "idle"]
    /\ wjob = [k \in Lanes |-> NoJob]
    /\ run = [k \in Lanes |-> "off"]
    /\ rjob = [k \in Lanes |-> NoJob]
    /\ executing = [k \in Lanes |-> 0]
    /\ reqs = EmptyBag
    /\ enqueued = [k \in Lanes |-> << >>]
    /\ started = [k \in Lanes |-> << >>]
    /\ finished = [k \in Lanes |-> << >>]
    /\ notes = [k \in Lanes |-> << >>]
    /\ lost = FALSE
    /\ left = requests
    /\ crashes = 0
    /\ faults = 0
    /\ torn = {}
    /\ stream = NoStream
    /\ stdout = NoLine
    /\ lock = Unlocked
    /\ loop = << >>
    /\ code = 0
    /\ log = [id \in Ids |-> NoHistory]
    /\ job_queue = [k \in Lanes |-> << >>]
    /\ job_running = [k \in Lanes |-> FALSE]
    /\ bot_pc = [k \in Lanes |-> "idle"]
    /\ bot_executing = [k \in Lanes |-> 0]
    /\ bot_jobs = 0

Init == Start(MaxOps)

\* ------------------------------------------------------------ record store
\* load_job: the record of job_id; callers test Exists first (404 otherwise).
Exists(job_id) == job_id \in DOMAIN store

load_job(job_id) == store[job_id]

\* save_job: the file of job["job_id"] is overwritten with the whole dict.
save_job(job) ==
    [ id \in DOMAIN store \cup {job.job_id} |->
        IF id = job.job_id THEN job ELSE store[id] ]

\* A save of `job`, a copy loaded earlier in which the saving code changed at
\* most the keys `written`, puts back the old value of some other key that a
\* save in between had changed.
Clobbers(job, written) ==
    /\ Exists(job.job_id)
    /\ \E f \in Fields \ written : job[f] # store[job.job_id][f]

\* An assert_owner that lets every user pass.
assert_owner_anyone(job, user_id) == TRUE

assert_owner(job, user_id) == job.owner_id = user_id

\* ----------------------------------------------------------- notification
\* send_webhook posts to the webhook iff the record has a url and the event
\* is in its allow-list (None or empty: all four events).
subscribed_events(job) ==
    IF job.webhook_events # {} THEN job.webhook_events ELSE Events

\* A send_webhook that does not look at the url.
will_post_any_url(job, event) == event \in subscribed_events(job)

will_post(job, event) ==
    /\ job.webhook_url # Null
    /\ event \in subscribed_events(job)

\* The except branch of send_webhook: the flag is set on the caller's dict.
webhook_failed(job) == [job EXCEPT !.webhook_last_error = "failed"]

Submitted(job_id) ==
    \E k \in Lanes : \E i \in 1..Len(enqueued[k]) : enqueued[k][i] = job_id

\* set_webhook was served with payload.events = events.
Hooked(l, job_id, events) ==
    [l EXCEPT ![job_id].hooks =
        @ \cup {IF events = {"completed"} THEN "completed" ELSE "all"}
          \cup (IF Submitted(job_id) THEN {} ELSE {"early"})]

\* send_webhook(job, event) as far as the request to the webhook.
Pushed(l, job, event) ==
    IF will_post(job, event)
    THEN [l EXCEPT ![job.job_id].pushes[event] = IF @ < MaxPushes THEN @ + 1 ELSE @]
    ELSE l

\* The request to the webhook returned (ok) or raised.
Delivered(l, job_id, ok) ==
    IF ok THEN l ELSE [l EXCEPT ![job_id].undelivered = TRUE]

\* A job-run subprocess was started for the job (no spec serves more than
\* MaxOps + 2 requests; more starts than that count as MaxOps + 3).
Ran(l, job_id) == [l EXCEPT ![job_id].runs = IF @ <= MaxOps + 2 THEN @ + 1 ELSE @]

\* The subprocess of a run of the job exited with code ret.
Exited(l, job_id, ret) == [l EXCEPT ![job_id].exits = @ \cup {ret}]

\* -------------------------------------------------------- progress parser
\* A line is a sequence of one-character strings.
Verbs ==
    << [name |-> "analysing", chars |-> <<"a","n","a","l","y","s","i","n","g">>],
       [name |-> "extracting", chars |-> <<"e","x","t","r","a","c","t","i","n","g">>],
       [name |-> "processing", chars |-> <<"p","r","o","c","e","s","s","i","n","g">>],
       [name |-> "merging", chars |-> <<"m","e","r","g","i","n","g">>],
       [name |-> "restoring", chars |-> <<"r","e","s","t","o","r","i","n","g">>],
       [name |-> "finalizing", chars |-> <<"f","i","n","a","l","i","z","i","n","g">>] >>

DigitChars == <<"0", "1", "2", "3", "4", "5", "6", "7", "8", "9">>

\* The characters \d matches, and the whitespace of \s and strip().
Digits == { DigitChars[d] : d \in 1..10 }

Whitespace == {" ", "\t"}

DigitValue(c) == (CHOOSE d \in 1..10 : DigitChars[d] = c) - 1

\* int() of a non-empty digit string.
RECURSIVE int(_)
int(digits) ==
    IF digits = << >> THEN 0
    ELSE 10 * int(SubSeq(digits, 1, Len(digits) - 1)) + DigitValue(digits[Len(digits)])

\* A parser that cuts the percentage at 100.
percent_clamped(digits) == IF int(digits) > 100 THEN 100 ELSE int(digits)

\* percent = int(match.group(2)).
percent(digits) == int(digits)

\* The end (exclusive) of the longest run of characters of class from i.
RunEnd(line, i, class) ==
    CHOOSE e \in i..(Len(line) + 1) :
        /\ \A x \in i..(e - 1) : line[x] \in class
        /\ e = Len(line) + 1 \/ line[e] \notin class

\* str.strip(): without the leading and trailing whitespace.
strip(line) ==
    LET first == RunEnd(line, 1, Whitespace)
        keep == { x \in 1..Len(line) : line[x] \notin Whitespace }
        last == IF keep = {} THEN 0 ELSE CHOOSE x \in keep : \A y \in keep : y <= x
    IN  IF keep = {} THEN << >> ELSE SubSeq(line, first, last)

\* PROGRESS_RE matched at position i with verb number v: the verb, ':', one
\* or more whitespace, one or more digits, '%'. << >> when it does not match.
MatchAt(line, i, v) ==
    LET chars == Verbs[v].chars
        colon == i + Len(chars)
        ws == colon + 1
        num == IF ws <= Len(line) + 1 THEN RunEnd(line, ws, Whitespace) ELSE ws
        pct == IF num <= Len(line) + 1 THEN RunEnd(line, num, Digits) ELSE num
    IN  IF /\ colon <= Len(line)
           /\ SubSeq(line, i, colon - 1) = chars
           /\ line[colon] = ":"
           /\ num > ws
           /\ pct > num
           /\ pct <= Len(line)
           /\ line[pct] = "%"
        THEN << Verbs[v].name, percent(SubSeq(line, num, pct - 1)) >>
        ELSE << >>

\* PROGRESS_RE.search: the leftmost match; << >> stands for None.
parse_progress(line) ==
    LET hits == { i \in 1..Len(line) : \E v \in 1..Len(Verbs) : MatchAt(line, i, v) # << >> }
    IN  IF hits = {} THEN << >>
        ELSE LET i == CHOOSE x \in hits : \A y \in hits : x <= y
                 v == CHOOSE w \in 1..Len(Verbs) : MatchAt(line, i, w) # << >>
             IN  MatchAt(line, i, v)

\* The lines the engine prints in the model: "processing: 42%", "  " and "hello".
EngineLines ==
    { <<"p","r","o","c","e","s","s","i","n","g",":"," ","4","2","%">>,
      <<" ", " ">>,
      <<"h","e","l","l","o">> }

\* More lines the engine may print: "processing: 7%" and "merging: 150%".
ProgressLines ==
    EngineLines \cup
    { <<"p","r","o","c","e","s","s","i","n","g",":"," ","7","%">>,
      <<"m","e","r","g","i","n","g",":"," ","1","5","0","%">> }

\* parse_progress of each stripped line, << >> for a blank one.
ParsedLines ==
    [ raw_line \in ProgressLines |->
        IF strip(raw_line) = << >> THEN << >> ELSE parse_progress(strip(raw_line)) ]

\* Lines for the parser alone, each made of seven parts: something before
\* the word, a word (the six verbs, "hello", "process", "Processing"), a
\* colon or none, a gap, a number (its digits and its value) or none, a
\* percent sign or none, and a rest (nothing, " world", " merging: 7%").
OutputLines ==
    [ before : { << >>, <<"x">> },
      word : { Verbs[v] : v \in 1..Len(Verbs) } \cup
             { [name |-> "hello", chars |-> <<"h","e","l","l","o">>],
               [name |-> "process", chars |-> <<"p","r","o","c","e","s","s">>],
               [name |-> "Processing",
                chars |-> <<"P","r","o","c","e","s","s","i","n","g">>] },
      colon : { <<":">>, << >> },
      gap : { << >>, <<" ">>, <<" ", " ">>, <<"\t">> },
      number : { [chars |-> << >>, value |-> 0],
                 [chars |-> <<"0">>, value |-> 0],
                 [chars |-> <<"4","2">>, value |-> 42],
                 [chars |-> <<"1","0","0">>, value |-> 100],
                 [chars |-> <<"1","5","0">>, value |-> 150],
                 [chars |-> <<"0","0","7">>, value |-> 7] },
      sign : { <<"%">>, << >> },
      rest : { << >>, <<" ","w","o","r","l","d">>,
               <<" ","m","e","r","g","i","n","g",":"," ","7","%">> } ]

\* The characters of such a line.
line_of(parts) ==
    parts.before \o parts.word.chars \o parts.colon \o parts.gap
        \o parts.number.chars \o parts.sign \o parts.rest

\* The engine prints a line ...
print_line(parts) ==
    /\ stdout.state = "none"
    /\ stdout' = [ state |-> "printed", parts |-> parts, parsed |-> << >> ]
    /\ UNCHANGED << store, laneVars, reqs, histVars, lost, left, crashes, faults,
                    torn, stream, code, restVars >>

\* ... and parse_progress is called on it.
parse_line ==
    /\ stdout.state = "printed"
    /\ stdout' = [ stdout EXCEPT !.state = "parsed",
                                 !.parsed = parse_progress(line_of(stdout.parts)) ]
    /\ UNCHANGED << store, laneVars, reqs, histVars, lost, left, crashes, faults,
                    torn, stream, code, restVars >>

\* The exit codes of the engine.
ExitCodes == {0, 1}

\* str(exc) of the CalledProcessError raised for a nonzero exit code.
error_text(ret) == IF ret = 0 THEN "" ELSE "returned non-zero exit status"

\* ------------------------------------------------------------ lane worker
\* A queue_job that puts the id at the head of the queue.
queue_job_at_head(q, job_id) == << job_id >> \o q

\* queue_job: put_nowait appends at the tail.
queue_job(q, job_id) == Append(q, job_id)

\* queue.get() returns the head.
queue_get(q) == Head(q)

\* A get() that leaves the item in the queue.
queue_after_peek(q) == q

\* ... and removes it from the queue.
queue_after_get(q) == Tail(q)

\* A worker that starts a job only when no lane has a subprocess.
worker_idle_all_lanes(k) == pc[k] = "idle" /\ \A other \in Lanes : executing[other] = 0

\* A worker that does not await the executor before the next queue.get().
worker_idle_no_await(k) == pc[k] \in {"idle", "executor"}

\* The worker is at `await queue.get()`: it comes back there only after the
\* finally block of the previous job.
worker_idle(k) == pc[k] = "idle"

\* The three assignments before the first save of the worker.
mark_running(job) == [job EXCEPT !.status = "running", !.stage = Null, !.progress = 0]

mark_completed(job) ==
    [job EXCEPT !.status = "completed", !.stage = "completed", !.progress = 100]

\* An except branch that does not record the error text.
mark_failed_no_error(job, text) == [job EXCEPT !.status = "failed", !.stage = "failed"]

mark_failed(job, text) ==
    [job EXCEPT !.status = "failed", !.stage = "failed", !.error = text]

\* run_in_executor(None, run_facefusion_job, ...): the thread starts and
\* Popen starts the subprocess.
StartRun(k) ==
    /\ pc' = [pc EXCEPT ![k] = "executor"]
    /\ run' = [run EXCEPT ![k] = "lines"]
    /\ executing' = [executing EXCEPT ![k] = @ + 1]

\* The finally block: task_done and the flag; the loop goes back to get().
Finally(k) ==
    /\ pc' = [pc EXCEPT ![k] = "idle"]
    /\ running' = [running EXCEPT ![k] = FALSE]
    /\ wjob' = [wjob EXCEPT ![k] = NoJob]
    /\ run' = [run EXCEPT ![k] = "off"]

\* From queue.get() to the first suspension: load, flag, save as running,
\* send_webhook up to the post (or, with no post, on to run_in_executor).
WorkerGet(k) ==
    /\ worker_idle(k)
    /\ queue[k] # << >>
    /\ Exists(queue_get(queue[k]))
    /\ LET job_id == queue_get(queue[k])
           job == mark_running(load_job(job_id))
       IN  /\ queue' = [queue EXCEPT ![k] = queue_after_get(@)]
           /\ running' = [running EXCEPT ![k] = TRUE]
           /\ wjob' = [wjob EXCEPT ![k] = job]
           /\ store' = save_job(job)
           /\ started' = [started EXCEPT ![k] = Append(@, job_id)]
           /\ notes' = [notes EXCEPT ![k] = << "running" >>]
           /\ IF will_post(job, "running")
              THEN /\ pc' = [pc EXCEPT ![k] = "post_running"]
                   /\ log' = Pushed(log, job, "running")
                   /\ UNCHANGED << run, executing >>
              ELSE /\ log' = Ran(log, job_id)
                   /\ StartRun(k)
    /\ UNCHANGED << rjob, reqs, enqueued, finished, lost, left, code, envVars >>

\* The post of the running event returns (ok) or raises: the except branch
\* saves the worker's dict; then run_in_executor.
WorkerPostRunning(k, ok) ==
    /\ pc[k] = "post_running"
    /\ IF ok
       THEN UNCHANGED << store, wjob, lost >>
       ELSE /\ wjob' = [wjob EXCEPT ![k] = webhook_failed(@)]
            /\ store' = save_job(webhook_failed(wjob[k]))
            /\ lost' = (lost \/ Clobbers(wjob[k], {"webhook_last_error"}))
    /\ log' = Ran(Delivered(log, wjob[k].job_id, ok), wjob[k].job_id)
    /\ StartRun(k)
    /\ UNCHANGED << queue, running, rjob, reqs, enqueued, started, finished, notes,
                    left, code, envVars >>

\* The runner thread reads one line; on a progress line update_job loads.
RunnerLine(k, raw_line) ==
    /\ run[k] = "lines"
    /\ LET parsed == ParsedLines[raw_line]
       IN  IF parsed = << >> \/ ~Exists(wjob[k].job_id)
           THEN UNCHANGED << run, rjob >>
           ELSE /\ rjob' = [rjob EXCEPT ![k] =
                       [load_job(wjob[k].job_id) EXCEPT
                           !.stage = parsed[1], !.progress = parsed[2]]]
                /\ run' = [run EXCEPT ![k] = "update"]
    /\ UNCHANGED << store, queue, running, pc, wjob, executing, reqs,
                    histVars, lost, left, code, envVars >>

\* update_job's save_job.
RunnerSave(k) ==
    /\ run[k] = "update"
    /\ store' = save_job(rjob[k])
    /\ lost' = (lost \/ Clobbers(rjob[k], {"stage", "progress"}))
    /\ run' = [run EXCEPT ![k] = "lines"]
    /\ rjob' = [rjob EXCEPT ![k] = NoJob]
    /\ UNCHANGED << queue, running, pc, wjob, executing, reqs, histVars, left, code,
                    envVars >>

\* The subprocess closes its output and exits with code ret.
RunnerExit(k, ret) ==
    /\ run[k] = "lines"
    /\ executing' = [executing EXCEPT ![k] = @ - 1]
    /\ run' = [run EXCEPT ![k] = IF ret = 0 THEN "exit0" ELSE "exit1"]
    /\ UNCHANGED << store, queue, running, pc, wjob, rjob, reqs, histVars,
                    lost, left, code, envVars >>

\* The executor call returns or raises CalledProcessError: the terminal
\* save, and send_webhook up to the post (or, with no post, the finally).
WorkerResume(k) ==
    /\ pc[k] = "executor"
    /\ run[k] \in {"exit0", "exit1"}
    /\ LET ok == run[k] = "exit0"
           event == IF ok THEN "completed" ELSE "failed"
           job == IF ok THEN mark_completed(wjob[k])
                  ELSE mark_failed(wjob[k], error_text(1))
           written == IF ok THEN {"status", "stage", "progress"}
                      ELSE {"status", "stage", "error"}
       IN  /\ store' = save_job(job)
           /\ lost' = (lost \/ Clobbers(wjob[k], written))
           /\ finished' = [finished EXCEPT ![k] = Append(@, job.job_id)]
           /\ notes' = [notes EXCEPT ![k] = Append(@, event)]
           /\ log' = Pushed(Exited(log, job.job_id, IF ok THEN 0 ELSE 1), job, event)
           /\ IF will_post(job, event)
              THEN /\ pc' = [pc EXCEPT ![k] = "post_final"]
                   /\ wjob' = [wjob EXCEPT ![k] = job]
                   /\ UNCHANGED << running, run >>
              ELSE Finally(k)
    /\ UNCHANGED << queue, rjob, executing, reqs, enqueued, started, left, code, envVars >>

\* The post of the terminal event returns or raises; then the finally block.
WorkerPostFinal(k, ok) ==
    /\ pc[k] = "post_final"
    /\ IF ok
       THEN UNCHANGED << store, lost >>
       ELSE /\ store' = save_job(webhook_failed(wjob[k]))
            /\ lost' = (lost \/ Clobbers(wjob[k], {"webhook_last_error"}))
    /\ log' = Delivered(log, wjob[k].job_id, ok)
    /\ Finally(k)
    /\ UNCHANGED << queue, rjob, executing, reqs, enqueued, started, finished, notes,
                    left, code, envVars >>

\* --------------------------------------------------------- client handlers
\* A response that changes nothing but the status code the caller sees.
Rejected(status_code) ==
    /\ code' = status_code
    /\ UNCHANGED << store, laneVars, reqs, histVars, lost, left, envVars, restVars >>

\* A request is served: the model's budget of requests.
Served == left > 0 /\ left' = left - 1

Suspend(op, job) == reqs' = reqs (+) SetToBag({[op |-> op, job |-> job]})

Resume(req) == reqs' = reqs (-) SetToBag({req})

Suspended(op) == { req \in BagToSet(reqs) : req.op = op }

\* Handlers that look at their input before they load the record.
Refusal_input_first(user_id, job_id, input_ok) ==
    IF ~input_ok THEN 400
    ELSE IF ~Exists(job_id) THEN 404
    ELSE IF ~assert_owner(load_job(job_id), user_id) THEN 403
    ELSE 200

\* The first lines of every handler on a job: load_job (404, or 500 when
\* json.loads raises on a partly written file), assert_owner (403), then the
\* handler's check of its input (400); 200 when all pass.
Refusal(user_id, job_id, input_ok) ==
    IF ~Exists(job_id) THEN 404
    ELSE IF job_id \in torn THEN 500
    ELSE IF ~assert_owner(load_job(job_id), user_id) THEN 403
    ELSE IF ~input_ok THEN 400
    ELSE 200

\* uuid4().hex[:8] of create_job_record, taken to be an id not used before.
FreshIds == { id \in Ids : id = Cardinality(DOMAIN store) + 1 }

\* POST /jobs: an unknown mode is replaced by DEFAULT_MODE.
create_job(user_id, mode, job_id) ==
    /\ Served
    /\ store' = save_job(create_job_record(user_id,
                    IF mode \in ALLOWED_MODES THEN mode ELSE DEFAULT_MODE, job_id))
    /\ code' = 200
    /\ UNCHANGED << laneVars, reqs, histVars, lost, envVars >>

\* GET /jobs/{id}.
get_job(user_id, job_id) ==
    Rejected(Refusal(user_id, job_id, TRUE))

\* POST /jobs/{id}/source up to `await save_upload_file`.
upload_source_begin(user_id, job_id, suffix_ok) ==
    IF Refusal(user_id, job_id, suffix_ok) = 200
    THEN /\ Served
         /\ Suspend("upload_source", load_job(job_id))
         /\ UNCHANGED << store, laneVars, histVars, lost, code, envVars >>
    ELSE Rejected(Refusal(user_id, job_id, suffix_ok))

\* ... and from there to the response.
upload_source_end(req) ==
    /\ req.op = "upload_source"
    /\ store' = save_job([req.job EXCEPT
                    !.source_path = "source", !.status = "waiting_target"])
    /\ lost' = (lost \/ Clobbers(req.job, {"source_path", "status"}))
    /\ Resume(req)
    /\ code' = 200
    /\ UNCHANGED << laneVars, histVars, left, envVars >>

\* POST /jobs/{id}/target up to `await save_upload_file`; suffix_kind is the
\* kind of the file's suffix, "other" when it is neither image nor video.
upload_target_begin(user_id, job_id, suffix_kind) ==
    LET refusal == Refusal(user_id, job_id,
                       Exists(job_id) /\ suffix_kind = load_job(job_id).target_kind)
    IN  IF refusal = 200
        THEN /\ Served
             /\ Suspend("upload_target", load_job(job_id))
             /\ UNCHANGED << store, laneVars, histVars, lost, code, envVars >>
        ELSE Rejected(refusal)

\* What becomes of an uploaded target: a video may be too large (413, from
\* save_upload_file) or too long (400, from is_video_too_long).
Verdicts == {"ok", "too_large", "too_long"}

\* ... and from there to the response.
upload_target_end(req, verdict) ==
    /\ req.op = "upload_target"
    /\ verdict # "ok" => req.job.target_kind = "video"
    /\ IF verdict = "ok"
       THEN LET job == req.job
                written == IF job.source_path # Null
                           THEN {"target_path", "status"} ELSE {"target_path"}
            IN  /\ store' = save_job([job EXCEPT
                            !.target_path = "target",
                            !.status = IF job.source_path # Null THEN "ready" ELSE @])
                /\ lost' = (lost \/ Clobbers(job, written))
                /\ code' = 200
       ELSE /\ code' = IF verdict = "too_large" THEN 413 ELSE 400
            /\ UNCHANGED << store, lost >>
    /\ Resume(req)
    /\ UNCHANGED << laneVars, histVars, left, envVars >>

\* A submit_job without the check for source and target.
submit_allowed_any(job) == TRUE

\* The check of submit_job before anything is written.
submit_allowed(job) == job.source_path # Null /\ job.target_path # Null

\* The first save of submit_job: the output path is chosen.
with_output(job) == [job EXCEPT !.output_path = "output"]

\* The second save of submit_job.
mark_queued(job) == [job EXCEPT !.status = "queued", !.stage = "queued", !.progress = 0]

\* submit_job from queue_job to the post of the queued event (the response
\* follows the post), or to the response when no post is made.
Enqueue(job) ==
    LET k == job.target_kind
    IN  /\ queue' = [queue EXCEPT ![k] = queue_job(@, job.job_id)]
        /\ enqueued' = [enqueued EXCEPT ![k] = Append(@, job.job_id)]
        /\ store' = save_job(mark_queued(job))
        /\ log' = Pushed(log, mark_queued(job), "queued")
        /\ IF will_post(mark_queued(job), "queued")
           THEN Suspend("submit", mark_queued(job)) /\ UNCHANGED code
           ELSE UNCHANGED reqs /\ code' = 200
        /\ UNCHANGED << running, pc, wjob, run, rjob, executing,
                        started, finished, notes, lost, envVars >>

\* A run_cli that does not check the exit status of the engine.
run_cli_unchecked(exit_ok) == TRUE

\* run_cli: subprocess.run(..., check=True) returns when the engine exits
\* with status 0 and raises CalledProcessError otherwise.
run_cli(exit_ok) == exit_ok

\* POST /jobs/{id}/submit up to the post of the queued event; engine_ok is
\* false when one of the three engine calls of enqueue_facefusion_job fails:
\* CalledProcessError is not handled and the response is 500.
submit_job(user_id, job_id, engine_ok) ==
    LET refusal == Refusal(user_id, job_id,
                       Exists(job_id) /\ submit_allowed(load_job(job_id)))
    IN  IF refusal = 200
        THEN /\ Served
             /\ IF run_cli(engine_ok)
                THEN Enqueue(with_output(load_job(job_id)))
                ELSE /\ store' = save_job(with_output(load_job(job_id)))
                     /\ code' = 500
                     /\ UNCHANGED << laneVars, reqs, histVars, lost, envVars >>
        ELSE Rejected(refusal)

\* submit_job in two steps, for what the other threads do meanwhile: up to
\* the first engine call of enqueue_facefusion_job, which subprocess.run
\* waits for on the thread of the event loop, ...
submit_job_begin(user_id, job_id) ==
    /\ Refusal(user_id, job_id, Exists(job_id) /\ submit_allowed(load_job(job_id))) = 200
    /\ Served
    /\ store' = save_job(with_output(load_job(job_id)))
    /\ loop' = << with_output(load_job(job_id)) >>
    /\ UNCHANGED << laneVars, reqs, histVars, lost, envVars, code, botVars, lock >>

\* ... and from the return of the last engine call, or the first one that
\* fails, on.
submit_job_end(engine_ok) ==
    /\ loop # << >>
    /\ loop' = << >>
    /\ IF run_cli(engine_ok)
       THEN Enqueue(loop[1])
       ELSE /\ code' = 500
            /\ UNCHANGED << store, laneVars, reqs, histVars, lost, envVars >>
    /\ UNCHANGED << left, botVars, lock >>

\* The post of the queued event returns or raises; then the response.
submit_post_done(req, ok) ==
    /\ req.op = "submit"
    /\ IF ok
       THEN UNCHANGED << store, lost >>
       ELSE /\ store' = save_job(webhook_failed(req.job))
            /\ lost' = (lost \/ Clobbers(req.job, {"webhook_last_error"}))
    /\ log' = Delivered(log, req.job.job_id, ok)
    /\ Resume(req)
    /\ code' = 200
    /\ UNCHANGED << laneVars, enqueued, started, finished, notes, left, envVars >>

\* POST /jobs/quick: create_job_record, upload_source, upload_target and
\* submit_job in one request. No other request can name the job before the
\* response carries its id, and the new record has no webhook, so the request
\* is one step up to its outcome: "bad_source" and "bad_target" are the 400
\* of the uploads, "engine_failed" the failure of an engine call.
quick_job(user_id, mode, job_id, outcome) ==
    LET created == create_job_record(user_id,
                       IF mode \in ALLOWED_MODES THEN mode ELSE DEFAULT_MODE, job_id)
        sourced == [created EXCEPT !.source_path = "source", !.status = "waiting_target"]
        targeted == [sourced EXCEPT !.target_path = "target", !.status = "ready"]
    IN  /\ Served
        /\ IF outcome = "ok" \/ (outcome = "engine_failed" /\ run_cli(FALSE))
           THEN Enqueue(with_output(targeted))
           ELSE /\ store' = save_job(
                       IF outcome = "bad_source" THEN created
                       ELSE IF outcome = "bad_target" THEN sourced
                       ELSE with_output(targeted))
                /\ code' = IF outcome = "engine_failed" THEN 500 ELSE 400
                /\ UNCHANGED << laneVars, reqs, histVars, lost, envVars >>

QuickOutcomes == {"ok", "bad_source", "bad_target", "engine_failed"}

\* payload.events of a WebhookRequest as set_webhook tests it: None (<< >>)
\* and the empty list (<<{}>>) are both false in `payload.events or [...]`.
listed(payload_events) == IF payload_events = << >> THEN {} ELSE payload_events[1]

\* POST /jobs/{id}/webhook; events is payload.events, {} for None or [].
set_webhook(user_id, job_id, url_ok, events) ==
    IF Refusal(user_id, job_id, url_ok) = 200
    THEN /\ Served
         /\ store' = save_job([load_job(job_id) EXCEPT
                         !.webhook_url = "http",
                         !.webhook_events = IF events # {} THEN events ELSE Events])
         /\ log' = Hooked(log, job_id, events)
         /\ code' = 200
         /\ UNCHANGED << laneVars, reqs, enqueued, started, finished, notes, lost, envVars >>
    ELSE Rejected(Refusal(user_id, job_id, url_ok))

\* POST /jobs/{id}/cancel.
cancel_job(user_id, job_id) ==
    IF Refusal(user_id, job_id, TRUE) = 200
    THEN /\ Served
         /\ store' = save_job([load_job(job_id) EXCEPT !.status = "cancelled"])
         /\ code' = 200
         /\ UNCHANGED << laneVars, reqs, histVars, lost, envVars >>
    ELSE Rejected(Refusal(user_id, job_id, TRUE))

\* GET /jobs/{id}/result: the file of a completed job with an output path,
\* when it is found on disk; 404 otherwise.
get_result(user_id, job_id, found) ==
    IF Refusal(user_id, job_id, TRUE) = 200
    THEN Rejected(IF /\ load_job(job_id).status = "completed"
                     /\ load_job(job_id).output_path # Null
                     /\ found
                  THEN 200 ELSE 404)
    ELSE Rejected(Refusal(user_id, job_id, TRUE))

\* job_to_response: what a client is shown of a record.
job_to_response(job) ==
    [ job_id |-> job.job_id, status |-> job.status, mode |-> job.mode,
      target_kind |-> job.target_kind, owner_id |-> job.owner_id,
      progress |-> job.progress, stage |-> job.stage,
      source_uploaded |-> job.source_path # Null,
      target_uploaded |-> job.target_path # Null,
      result_ready |-> job.status = "completed" /\ job.output_path # Null ]

\* GET /jobs/{id}/events up to the StreamingResponse: the generator has not
\* run yet, last_payload is None (<< >>; a sent payload is <<data>>). The
\* fields `before` (the payload sent before last_payload) and `polled` (the
\* loop body has run) are history. The model follows one subscription.
job_events(user_id, job_id) ==
    IF Refusal(user_id, job_id, TRUE) = 200
    THEN /\ Served
         /\ stream.state = "none"
         /\ stream' = [ state |-> "open", job_id |-> job_id, last_payload |-> << >>,
                        before |-> << >>, polled |-> FALSE ]
         /\ code' = 200
         /\ UNCHANGED << store, laneVars, reqs, histVars, lost, crashes, faults, torn, stdout >>
    ELSE Rejected(Refusal(user_id, job_id, TRUE))

\* The tests of stream(): `data != last_payload` (json.dumps of the payload
\* dict is one-to-one, so data is the payload) and the status that ends it.
differs_always(data, last_payload) == TRUE

differs(data, last_payload) == <<data>> # last_payload

closes_never(status) == FALSE

closes(status) == status \in {"completed", "failed", "cancelled"}

\* One turn of the loop of stream() with the client connected.
stream_poll ==
    /\ stream.state = "open"
    /\ LET job_state == load_job(stream.job_id)
           data == job_to_response(job_state)
       IN  stream' =
             IF differs(data, stream.last_payload)
             THEN [ stream EXCEPT !.before = stream.last_payload,
                                  !.last_payload = <<data>>,
                                  !.polled = TRUE,
                                  !.state = IF closes(job_state.status)
                                            THEN "closed" ELSE "open" ]
             ELSE [ stream EXCEPT !.polled = TRUE ]
    /\ UNCHANGED << store, laneVars, reqs, histVars, lost, left, crashes, faults,
                    torn, stdout, code >>

\* The client goes away: request.is_disconnected() ends the loop.
stream_disconnect ==
    /\ stream.state = "open"
    /\ stream' = [ stream EXCEPT !.state = "disconnected" ]
    /\ UNCHANGED << store, laneVars, reqs, histVars, lost, left, crashes, faults,
                    torn, stdout, code >>

\* JOB_LOCK, a threading.Lock that only load_job and save_job take, each for
\* its own `with` block. The block has no await and no call that waits, so a
\* thread that is inside leaves it by its own next step; leaving releases
\* the lock, also when load_job raises for a missing file.
release_never(held) == held

release(held) == Unlocked

\* A thread ("loop": the event loop's thread, or the runner thread of a lane)
\* enters the `with JOB_LOCK` block of load_job or save_job for job_id.
lock_enter(thread, op, job_id) ==
    /\ lock.holder = "free"
    /\ lock' = [ holder |-> thread, op |-> op, job_id |-> job_id ]
    /\ UNCHANGED << store, laneVars, reqs, histVars, lost, left, envVars, code, botVars, loop >>

\* The threads leave the block: the event loop's load_job returns the record
\* or raises the 404; the runner's update_job has loaded (RunnerLine) or
\* saved (RunnerSave).
LockExit ==
    \/ /\ lock.holder = "loop"
       /\ code' = IF Exists(lock.job_id) THEN 200 ELSE 404
       /\ lock' = release(lock)
       /\ UNCHANGED << store, laneVars, reqs, histVars, lost, left, envVars, botVars, loop >>
    \/ \E k \in Lanes :
          /\ lock.holder = k
          /\ lock' = release(lock)
          /\ UNCHANGED << botVars, loop >>
          /\ IF lock.op = "load"
             THEN \E line \in EngineLines :
                      ParsedLines[line] # << >> /\ RunnerLine(k, line)
             ELSE RunnerSave(k)

\* ------------------------------------------------------------ environment
\* The process dies and is started again: start_workers makes new empty
\* queues, flags and worker tasks; every coroutine and thread is gone; the
\* files of the store stay. An engine subprocess may die with its parent or
\* live on (`orphans`: how many stay per lane).
Restart(orphans) ==
    /\ crashes < MaxCrashes
    /\ crashes' = crashes + 1
    /\ \A k \in Lanes : orphans[k] <= executing[k]
    /\ executing' = orphans
    /\ queue' = [k \in Lanes |-> << >>]
    /\ running' = [k \in Lanes |-> FALSE]
    /\ pc' = [k \in Lanes |-> "idle"]
    /\ wjob' = [k \in Lanes |-> NoJob]
    /\ run' = [k \in Lanes |-> "off"]
    /\ rjob' = [k \in Lanes |-> NoJob]
    /\ reqs' = EmptyBag
    /\ enqueued' = [k \in Lanes |-> << >>]
    /\ started' = [k \in Lanes |-> << >>]
    /\ finished' = [k \in Lanes |-> << >>]
    /\ notes' = [k \in Lanes |-> << >>]
    /\ stream' = IF stream.state = "open"
                 THEN [ stream EXCEPT !.state = "disconnected" ] ELSE stream
    /\ UNCHANGED << store, lost, left, faults, stdout, code, log >>

Crash(orphans) == Restart(orphans) /\ UNCHANGED torn

\* The process dies inside save_job of the runner thread's update_job:
\* write_text has truncated the file and not yet written all of the record.
CrashInSave(k, orphans) ==
    /\ run[k] = "update"
    /\ Restart(orphans)
    /\ torn' = torn \cup {rjob[k].job_id}

\* The subprocesses of lane k that a runner thread of this process waits for.
Supervised(k) == IF run[k] \in {"lines", "update"} THEN 1 ELSE 0

\* An engine subprocess left by a crashed process exits.
OrphanExit(k) ==
    /\ executing[k] > Supervised(k)
    /\ executing' = [executing EXCEPT ![k] = @ - 1]
    /\ UNCHANGED << store, queue, running, pc, wjob, run, rjob, reqs,
                    histVars, lost, left, code, envVars >>

\* load_job raises in the worker (the file cannot be read or parsed): the
\* call is outside the try block, so the exception ends the worker task.
WorkerGetLoadFault(k) ==
    /\ faults < MaxFaults
    /\ faults' = faults + 1
    /\ worker_idle(k)
    /\ queue[k] # << >>
    /\ queue' = [queue EXCEPT ![k] = queue_after_get(@)]
    /\ pc' = [pc EXCEPT ![k] = "dead"]
    /\ UNCHANGED << store, running, wjob, run, rjob, executing, reqs,
                    histVars, lost, left, code, crashes, torn, stream, stdout >>

\* The save_job of the completed record raises (the file cannot be written):
\* the except branch saves the record as failed and notifies failed.
WorkerResumeSaveFault(k) ==
    /\ faults < MaxFaults
    /\ faults' = faults + 1
    /\ pc[k] = "executor"
    /\ run[k] = "exit0"
    /\ LET job == mark_failed(mark_completed(wjob[k]), "cannot write")
       IN  /\ store' = save_job(job)
           /\ lost' = (lost \/ Clobbers(wjob[k], {"status", "stage", "progress", "error"}))
           /\ finished' = [finished EXCEPT ![k] = Append(@, job.job_id)]
           /\ notes' = [notes EXCEPT ![k] = Append(@, "failed")]
           /\ log' = Pushed(Exited(log, job.job_id, 0), job, "failed")
           /\ IF will_post(job, "failed")
              THEN /\ pc' = [pc EXCEPT ![k] = "post_final"]
                   /\ wjob' = [wjob EXCEPT ![k] = job]
                   /\ UNCHANGED << running, run >>
              ELSE Finally(k)
    /\ UNCHANGED << queue, rjob, executing, reqs, enqueued, started, left, code,
                    crashes, torn, stream, stdout >>

\* The run failed and the save_job of the except branch raises as well: the
\* finally block runs and the exception ends the worker task.
WorkerHandlerFault(k) ==
    /\ faults < MaxFaults
    /\ faults' = faults + 1
    /\ pc[k] = "executor"
    /\ run[k] = "exit1"
    /\ pc' = [pc EXCEPT ![k] = "dead"]
    /\ running' = [running EXCEPT ![k] = FALSE]
    /\ wjob' = [wjob EXCEPT ![k] = NoJob]
    /\ run' = [run EXCEPT ![k] = "off"]
    /\ UNCHANGED << store, queue, rjob, executing, reqs, histVars, lost, left, code,
                    crashes, torn, stream, stdout >>

\* --------------------------------------------------------------- the bot
\* The bot is a process of its own with its own two queues and workers.
\* handle_mode_button, the confirmed job: enqueue_job runs the three engine
\* calls in the executor; a failed call is reported and nothing is queued;
\* otherwise the tuple of the new job is put on the queue of its kind.
handle_mode_button(kind, engine_ok) ==
    /\ Served
    /\ IF run_cli(engine_ok)
       THEN /\ bot_jobs' = bot_jobs + 1
            /\ job_queue' = [job_queue EXCEPT ![kind] = Append(@, bot_jobs + 1)]
       ELSE UNCHANGED << job_queue, bot_jobs >>
    /\ UNCHANGED << job_running, bot_pc, bot_executing, apiVars >>

\* A queue_position that does not look at the flag.
queue_position_no_flag(q, flag) == Len(q)

\* queue_position: qsize(), plus one when the lane's flag is set.
queue_position(q, flag) == Len(q) + (IF flag THEN 1 ELSE 0)

\* job_worker at `await queue.get()`.
job_worker_idle(k) == bot_pc[k] = "idle"

\* job_worker from queue.get() to run_in_executor(None, run_job, ...).
BotWorkerGet(k) ==
    /\ job_worker_idle(k)
    /\ job_queue[k] # << >>
    /\ job_queue' = [job_queue EXCEPT ![k] = Tail(@)]
    /\ job_running' = [job_running EXCEPT ![k] = TRUE]
    /\ bot_pc' = [bot_pc EXCEPT ![k] = "executor"]
    /\ bot_executing' = [bot_executing EXCEPT ![k] = @ + 1]
    /\ UNCHANGED << bot_jobs, apiVars, left >>

\* run_job: proc.wait() returns; a nonzero code raises CalledProcessError.
BotRunExit(k, ret) ==
    /\ bot_pc[k] = "executor"
    /\ bot_executing' = [bot_executing EXCEPT ![k] = @ - 1]
    /\ bot_pc' = [bot_pc EXCEPT ![k] = IF ret = 0 THEN "exit0" ELSE "exit1"]
    /\ UNCHANGED << job_queue, job_running, bot_jobs, apiVars, left >>

\* job_worker after the executor: it opens the output file and sends it, or
\* (file missing, or the run failed) sends a message from an except branch.
BotWorkerResume(k, found) ==
    /\ bot_pc[k] \in {"exit0", "exit1"}
    /\ bot_pc' = [bot_pc EXCEPT ![k] =
            IF bot_pc[k] = "exit0" /\ found THEN "send_result" ELSE "send_message"]
    /\ UNCHANGED << job_queue, job_running, bot_executing, bot_jobs, apiVars, left >>

\* The send returns or raises. A failed send of the result is handled by
\* `except Exception`, which sends a message; a failed send of a message is
\* raised from an except branch: finally runs and the task ends.
BotWorkerSent(k, ok) ==
    /\ bot_pc[k] \in {"send_result", "send_message"}
    /\ IF ok
       THEN /\ bot_pc' = [bot_pc EXCEPT ![k] = "idle"]
            /\ job_running' = [job_running EXCEPT ![k] = FALSE]
       ELSE IF bot_pc[k] = "send_result"
       THEN /\ bot_pc' = [bot_pc EXCEPT ![k] = "send_message"]
            /\ UNCHANGED job_running
       ELSE /\ bot_pc' = [bot_pc EXCEPT ![k] = "dead"]
            /\ job_running' = [job_running EXCEPT ![k] = FALSE]
    /\ UNCHANGED << job_queue, bot_executing, bot_jobs, apiVars, left >>

\* ------------------------------------------------------------ specification
\* Spec: every handler with every input, the rejected ones included.
CreateJob ==
    /\ UNCHANGED restVars
    /\ \E u \in Owners, m \in RequestModes, id \in FreshIds : create_job(u, m, id)
QuickJob ==
    /\ UNCHANGED restVars
    /\ \E u \in Owners, m \in RequestModes, id \in FreshIds, o \in QuickOutcomes :
           quick_job(u, m, id, o)
UploadSourceBegin ==
    /\ UNCHANGED restVars
    /\ \E u \in Users, id \in Ids, ok \in BOOLEAN : upload_source_begin(u, id, ok)
UploadSourceEnd ==
    /\ UNCHANGED restVars
    /\ \E req \in Suspended("upload_source") : upload_source_end(req)
UploadTargetBegin ==
    /\ UNCHANGED restVars
    /\ \E u \in Users, id \in Ids, sk \in Lanes \cup {"other"} : upload_target_begin(u, id, sk)
UploadTargetEnd ==
    /\ UNCHANGED restVars
    /\ \E req \in Suspended("upload_target"), v \in Verdicts : upload_target_end(req, v)
SubmitJob ==
    /\ UNCHANGED restVars
    /\ \E u \in Users, id \in Ids, ok \in BOOLEAN : submit_job(u, id, ok)
SubmitPostDone ==
    /\ UNCHANGED restVars
    /\ \E req \in Suspended("submit"), ok \in BOOLEAN : submit_post_done(req, ok)
SetWebhook ==
    /\ UNCHANGED restVars
    /\ \E u \in Users, id \in Ids, ok \in BOOLEAN : set_webhook(u, id, ok, {})
CancelJob ==
    /\ UNCHANGED restVars
    /\ \E u \in Users, id \in Ids : cancel_job(u, id)
Worker ==
    /\ UNCHANGED restVars
    /\ \E k \in Lanes :
           \/ WorkerGet(k)
           \/ \E ok \in BOOLEAN : WorkerPostRunning(k, ok)
           \/ WorkerResume(k)
           \/ \E ok \in BOOLEAN : WorkerPostFinal(k, ok)
Runner ==
    /\ UNCHANGED restVars
    /\ \E k \in Lanes :
           \/ \E line \in EngineLines : RunnerLine(k, line)
           \/ RunnerSave(k)
           \/ \E ret \in ExitCodes : RunnerExit(k, ret)

Next ==
    \/ CreateJob
    \/ QuickJob
    \/ UploadSourceBegin
    \/ UploadSourceEnd
    \/ UploadTargetBegin
    \/ UploadTargetEnd
    \/ SubmitJob
    \/ SubmitPostDone
    \/ SetWebhook
    \/ CancelJob
    \/ Worker
    \/ Runner

Spec == Init /\ [][Next]_vars

\* SpecLane: the requests that reach the lanes. Jobs arrive complete (quick
\* requests whose uploads and engine calls succeed), are submitted again,
\* get a webhook and are cancelled, all by their owner.
LaneQuickJob ==
    /\ UNCHANGED restVars
    /\ \E u \in Owners, m \in ALLOWED_MODES \cap RequestModes, id \in FreshIds :
           quick_job(u, m, id, "ok")
LaneSubmitJob ==
    /\ UNCHANGED restVars
    /\ \E id \in DOMAIN store : submit_job(store[id].owner_id, id, TRUE)
LaneSetWebhook ==
    /\ UNCHANGED restVars
    /\ \E id \in DOMAIN store : set_webhook(store[id].owner_id, id, TRUE, {})
LaneCancelJob ==
    /\ UNCHANGED restVars
    /\ \E id \in DOMAIN store : cancel_job(store[id].owner_id, id)

LaneNext ==
    \/ LaneQuickJob
    \/ LaneSubmitJob
    \/ LaneSetWebhook
    \/ LaneCancelJob
    \/ SubmitPostDone
    \/ Worker
    \/ Runner

SpecLane == Init /\ [][LaneNext]_vars

\* SpecCrash: SpecLane with crashes and restarts of the process.
CrashRestart ==
    /\ UNCHANGED restVars
    /\ \E orphans \in [Lanes -> {0, 1}] : Crash(orphans)
Orphan ==
    /\ UNCHANGED restVars
    /\ \E k \in Lanes : OrphanExit(k)

SpecCrash == Init /\ [][LaneNext \/ CrashRestart \/ Orphan]_vars

\* SpecFault: SpecLane with I/O errors of the store in the worker.
StoreFault ==
    /\ UNCHANGED restVars
    /\ \E k \in Lanes :
           \/ WorkerGetLoadFault(k)
           \/ WorkerResumeSaveFault(k)
           \/ WorkerHandlerFault(k)

SpecFault == Init /\ [][LaneNext \/ StoreFault]_vars

\* SpecWorkers: the API process of SpecLane and the bot process side by side.
BotEnqueue == \E k \in Lanes, ok \in BOOLEAN : handle_mode_button(k, ok)
BotWorker ==
    \E k \in Lanes :
        \/ BotWorkerGet(k)
        \/ \E ret \in ExitCodes : BotRunExit(k, ret)
        \/ \E found \in BOOLEAN : BotWorkerResume(k, found)
        \/ \E ok \in BOOLEAN : BotWorkerSent(k, ok)

SpecWorkers == Init /\ [][LaneNext \/ BotEnqueue \/ BotWorker]_vars

\* SpecUpload: the life of the artifacts of a record. Jobs are created,
\* get their uploads (several may be in flight), are submitted (the engine
\* calls may fail) and run; two more requests fit in a run than under Spec.
UploadCreateJob ==
    /\ UNCHANGED restVars
    /\ \E u \in Owners, m \in ALLOWED_MODES \cap RequestModes, id \in FreshIds :
           create_job(u, m, id)
UploadSource ==
    /\ UNCHANGED restVars
    /\ \E id \in DOMAIN store : upload_source_begin(store[id].owner_id, id, TRUE)
UploadTarget ==
    /\ UNCHANGED restVars
    /\ \E id \in DOMAIN store :
           upload_target_begin(store[id].owner_id, id, store[id].target_kind)
UploadSubmitJob ==
    /\ UNCHANGED restVars
    /\ \E id \in DOMAIN store, ok \in BOOLEAN : submit_job(store[id].owner_id, id, ok)

UploadWorker ==
    /\ UNCHANGED restVars
    /\ \E k \in Lanes : WorkerGet(k) \/ WorkerResume(k)

UploadNext ==
    \/ UploadCreateJob
    \/ UploadSource
    \/ UploadSourceEnd
    \/ UploadTarget
    \/ UploadTargetEnd
    \/ UploadSubmitJob
    \/ UploadWorker
    \/ Runner

SpecUpload == Start(MaxOps + 2) /\ [][UploadNext]_vars

\* SpecEngine: the API next to the bot; jobs arrive complete in the default
\* mode and are submitted again, and the engine calls of a submission fail
\* or succeed.
SpecEngine ==
    /\ Init
    /\ [][\/ /\ UNCHANGED restVars
              /\ \E u \in Owners, id \in FreshIds, outcome \in {"ok", "engine_failed"} :
                     quick_job(u, DEFAULT_MODE, id, outcome)
           \/ UploadSubmitJob
           \/ UploadWorker
           \/ Runner
           \/ BotEnqueue
           \/ BotWorker]_vars

\* SpecBlock: the threads of the API. Coroutines (handlers and workers) run
\* on the one thread of the event loop, so none of them takes a step while
\* that thread is inside subprocess.run; the runner threads go on.
LoopStep ==
    \/ loop = << >> /\ LaneQuickJob
    \/ loop = << >> /\ UploadWorker
    \/ /\ loop = << >>
       /\ UNCHANGED << botVars, lock >>
       /\ \E id \in DOMAIN store : submit_job_begin(store[id].owner_id, id)

SpecBlock ==
    /\ Init
    /\ [][LoopStep \/ Runner \/ (\E ok \in BOOLEAN : submit_job_end(ok))]_vars

\* SpecLive: SpecLane with the event loop and the threads scheduled fairly:
\* a worker or handler that can go on does, every post returns or raises,
\* a runner thread that has read a progress line saves it, and every
\* subprocess exits, however many lines it prints before.
SpecLive ==
    /\ Init
    /\ [][LaneNext]_vars
    /\ WF_vars(Worker)
    /\ WF_vars(SubmitPostDone)
    /\ \A k \in Lanes :
           /\ WF_vars(RunnerSave(k) /\ UNCHANGED restVars)
           /\ SF_vars(UNCHANGED restVars /\ \E ret \in ExitCodes : RunnerExit(k, ret))

\* SpecCross: complete jobs arrive for both lanes and run. The event loop
\* resumes a worker whose queue.get() can return; nothing is assumed about
\* how long a subprocess runs.
CrossNext ==
    \/ LaneQuickJob
    \/ UploadWorker
    \/ Runner

SpecCross ==
    /\ Init
    /\ [][CrossNext]_vars
    /\ \A k \in Lanes : WF_vars(WorkerGet(k) /\ UNCHANGED restVars)

\* SpecTear: SpecCrash for complete jobs, with crashes inside a save.
TornSave ==
    /\ UNCHANGED restVars
    /\ \E k \in Lanes, orphans \in [Lanes -> {0, 1}] : CrashInSave(k, orphans)

SpecTear == Init /\ [][CrossNext \/ CrashRestart \/ Orphan \/ TornSave]_vars

\* SpecProgress: complete jobs run and the engine prints any of ProgressLines.
ProgressRunner ==
    /\ UNCHANGED restVars
    /\ \E k \in Lanes :
           \/ \E line \in ProgressLines : RunnerLine(k, line)
           \/ RunnerSave(k)
           \/ \E ret \in ExitCodes : RunnerExit(k, ret)

SpecProgress == Init /\ [][LaneQuickJob \/ UploadWorker \/ ProgressRunner]_vars

\* SpecStream: complete jobs arrive, run and are cancelled while their owner
\* follows one of them on the event stream. The sleep(1) of the stream's loop
\* ends, so a connected stream polls again.
JobEvents ==
    /\ UNCHANGED restVars
    /\ \E id \in DOMAIN store : job_events(store[id].owner_id, id)
StreamPoll == stream_poll /\ UNCHANGED restVars
StreamDisconnect == stream_disconnect /\ UNCHANGED restVars

StreamNext ==
    \/ LaneQuickJob
    \/ LaneCancelJob
    \/ UploadWorker
    \/ Runner
    \/ JobEvents
    \/ StreamPoll
    \/ StreamDisconnect

SpecStream == Init /\ [][StreamNext]_vars /\ WF_vars(StreamPoll)

\* SpecMissing: SpecCross with requests of any user that name an id no record
\* has, with good and bad input alike.
MissingGetJob ==
    /\ UNCHANGED restVars
    /\ \E u \in Users, id \in Ids \ DOMAIN store : get_job(u, id)
MissingUploadSource ==
    /\ UNCHANGED restVars
    /\ \E u \in Users, id \in Ids \ DOMAIN store, ok \in BOOLEAN :
           upload_source_begin(u, id, ok)
MissingUploadTarget ==
    /\ UNCHANGED restVars
    /\ \E u \in Users, id \in Ids \ DOMAIN store, kind \in Lanes \cup {"other"} :
           upload_target_begin(u, id, kind)
MissingSubmitJob ==
    /\ UNCHANGED restVars
    /\ \E u \in Users, id \in Ids \ DOMAIN store, ok \in BOOLEAN : submit_job(u, id, ok)
MissingSetWebhook ==
    /\ UNCHANGED restVars
    /\ \E u \in Users, id \in Ids \ DOMAIN store, ok \in BOOLEAN :
           set_webhook(u, id, ok, {})
MissingCancelJob ==
    /\ UNCHANGED restVars
    /\ \E u \in Users, id \in Ids \ DOMAIN store : cancel_job(u, id)
MissingJobEvents ==
    /\ UNCHANGED restVars
    /\ \E u \in Users, id \in Ids \ DOMAIN store : job_events(u, id)

MissingNext ==
    \/ MissingGetJob
    \/ MissingUploadSource
    \/ MissingUploadTarget
    \/ MissingSubmitJob
    \/ MissingSetWebhook
    \/ MissingCancelJob
    \/ MissingJobEvents

SpecMissing == Init /\ [][CrossNext \/ MissingNext]_vars

\* SpecOwner: SpecCross with every operation on a job called by a user who
\* does not own it, with an input the owner would be served for.
OtherUserCall ==
    /\ UNCHANGED restVars
    /\ \E id \in DOMAIN store : \E u \in Users \ {store[id].owner_id} :
           \/ get_job(u, id)
           \/ upload_source_begin(u, id, TRUE)
           \/ upload_target_begin(u, id, store[id].target_kind)
           \/ submit_job(u, id, TRUE)
           \/ \E events \in {{}, {"completed"}} : set_webhook(u, id, TRUE, events)
           \/ cancel_job(u, id)
           \/ job_events(u, id)
           \/ get_result(u, id, TRUE)

SpecOwner == Init /\ [][CrossNext \/ OtherUserCall]_vars

\* SpecEvents: SpecLane without cancels, with set_webhook called with no
\* list of events, with the empty list and with ["completed"].
SpecEvents ==
    /\ Init
    /\ [][\/ LaneQuickJob
           \/ LaneSubmitJob
           \/ /\ UNCHANGED restVars
              /\ \E id \in DOMAIN store,
                     payload_events \in {<< >>, <<{}>>, <<{"completed"}>>} :
                     set_webhook(store[id].owner_id, id, TRUE, listed(payload_events))
           \/ SubmitPostDone
           \/ Worker
           \/ Runner]_vars

\* SpecIds: jobs are created, alone or by quick requests, and run; the id is
\* what uuid4().hex[:8] returns: any of the ids, used before or not (the
\* code draws 32 random bits and does not look whether the file exists).
AnyCreateJob ==
    /\ UNCHANGED restVars
    /\ \E u \in Users, m \in RequestModes, id \in Ids : create_job(u, m, id)
AnyQuickJob ==
    /\ UNCHANGED restVars
    /\ \E u \in Owners, m \in ALLOWED_MODES \cap RequestModes, id \in Ids :
           quick_job(u, m, id, "ok")

SpecIds == Init /\ [][AnyCreateJob \/ AnyQuickJob \/ UploadWorker \/ Runner]_vars

\* SpecParse: the parser alone, on each of OutputLines.
PrintLine == \E parts \in OutputLines : print_line(parts)

SpecParse == Init /\ [][PrintLine \/ parse_line]_vars

\* SpecLock: SpecCross with the lock taken and released in steps of their
\* own. The event loop's thread serves quick requests, runs the workers
\* (which needs the lock to be free) and loads records, also of ids without
\* a record; the runner threads take the lock for the load and for the save
\* of update_job. A thread inside a `with JOB_LOCK` block goes on running;
\* nothing is assumed about the subprocesses or about any other step.
LockNext ==
    \/ lock.holder = "free" /\ LaneQuickJob
    \/ lock.holder = "free" /\ UploadWorker
    \/ \E id \in Ids : lock_enter("loop", "load", id)
    \/ \E k \in Lanes : run[k] = "lines" /\ lock_enter(k, "load", wjob[k].job_id)
    \/ \E k \in Lanes : run[k] = "update" /\ lock_enter(k, "save", wjob[k].job_id)
    \/ LockExit
    \/ \E k \in Lanes, line \in EngineLines :
          /\ lock.holder # k
          /\ ParsedLines[line] = << >>
          /\ RunnerLine(k, line)
          /\ UNCHANGED restVars
    \/ \E k \in Lanes, ret \in ExitCodes :
          lock.holder # k /\ RunnerExit(k, ret) /\ UNCHANGED restVars

SpecLock == Init /\ [][LockNext]_vars /\ WF_vars(LockExit)

\* SpecHook: SpecUpload with webhooks: a job is created, gets its uploads and
\* a webhook (for all events or for ["completed"]), is submitted and runs;
\* the posts to the webhook return or raise.
HookSetWebhook ==
    /\ UNCHANGED restVars
    /\ \E id \in DOMAIN store, events \in {{}, {"completed"}} :
           set_webhook(store[id].owner_id, id, TRUE, events)
HookSubmitJob ==
    /\ UNCHANGED restVars
    /\ \E id \in DOMAIN store : submit_job(store[id].owner_id, id, TRUE)

HookNext ==
    \/ UploadCreateJob
    \/ UploadSource
    \/ UploadSourceEnd
    \/ UploadTarget
    \/ UploadTargetEnd
    \/ HookSetWebhook
    \/ HookSubmitJob
    \/ SubmitPostDone
    \/ Worker
    \/ Runner

SpecHook == Start(MaxOps + 2) /\ [][HookNext]_vars

\* SpecFrame: SpecHook with cancellations: every operation on a job after its
\* creation.
SpecFrame == Start(MaxOps + 2) /\ [][HookNext \/ LaneCancelJob]_vars

\* ------------------------------------------------------------------ claims
IsPrefix(a, b) == Len(a) <= Len(b) /\ SubSeq(b, 1, Len(a)) = a

Count(seq, x) == Cardinality({ i \in 1..Len(seq) : seq[i] = x })

Status(id) == store[id].status

\* C1: in every reachable state each lane has at most one job-run subprocess
\* that has not exited (so the worker never starts the next one before the
\* previous one has exited).
C1_OneSubprocessPerLane ==
    \A k \in Lanes : executing[k] <= 1 /\ bot_executing[k] <= 1

\* A subprocess of the API is executing while another job waits in the same
\* queue, and a subprocess of the bot is executing.
C1_Witness ==
    /\ \E k \in Lanes : executing[k] = 1 /\ queue[k] # << >>
    /\ \E k \in Lanes : bot_executing[k] = 1

\* C2: per lane, the ids saved as running are, in order, a prefix of the ids
\* enqueued, the ids saved as completed or failed are a prefix of those, and
\* at most one started job has not finished: no job overtakes another.
C2_LaneIsFifo ==
    \A k \in Lanes :
        /\ IsPrefix(started[k], enqueued[k])
        /\ IsPrefix(finished[k], started[k])
        /\ Len(started[k]) - Len(finished[k]) <= 1

\* Two different jobs of one lane have both finished.
C2_Witness ==
    \E k \in Lanes : Len(finished[k]) >= 2 /\ finished[k][1] # finished[k][2]

\* C3: at most one persisted record per target kind has status running.
C3_OneRunningRecordPerKind ==
    \A kind \in Lanes :
        Cardinality({ id \in DOMAIN store :
            store[id].target_kind = kind /\ Status(id) = "running" }) <= 1

\* C4: no step takes a record from completed or failed back to queued,
\* running or a status from before submission, nor from running to queued.
C4_StatusNeverGoesBack ==
    [][ \A id \in DOMAIN store :
          /\ Status(id) \in {"completed", "failed"} =>
                store'[id].status \notin
                    {"queued", "running", "waiting_source", "waiting_target", "ready"}
          /\ Status(id) = "running" => store'[id].status # "queued" ]_vars

\* C5: when the worker dequeues a job whose record is cancelled, the record
\* stays cancelled and no subprocess is started for it.
C5_CancelledQueuedJobIsSkipped ==
    [][ \A k \in Lanes :
          ( /\ pc[k] = "idle"
            /\ pc'[k] \notin {"idle", "dead"}
            /\ Status(queue_get(queue[k])) = "cancelled" )
          => /\ store'[queue_get(queue[k])].status = "cancelled"
             /\ executing'[k] = executing[k] ]_vars

\* C6: once a record is cancelled no step changes its status.
C6_CancelledIsTerminal ==
    [][ \A id \in DOMAIN store :
          Status(id) = "cancelled" => store'[id].status = "cancelled" ]_vars

\* C7: no worker task ever ends.
C7_WorkersNeverEnd == \A k \in Lanes : pc[k] # "dead"

\* C8: when the run of a job ends with a nonzero exit code, the worker's
\* next step saves the record as failed with a non-empty error, and the run
\* has notified failed exactly once and completed never; the notifications
\* of a run change only when the worker dequeues and when the run returns.
C8_NonzeroExitFails ==
    [][ \A k \in Lanes :
          /\ ( pc[k] = "executor" /\ run[k] = "exit1" /\ pc'[k] # "executor" )
             => /\ store'[wjob[k].job_id].status = "failed"
                /\ store'[wjob[k].job_id].error \notin {Null, ""}
                /\ Count(notes'[k], "failed") = 1
                /\ Count(notes'[k], "completed") = 0
          /\ notes'[k] # notes[k] => pc[k] \in {"idle", "executor"} ]_vars

\* A run that exited nonzero has been handled: the record is failed.
C8_Witness ==
    \E k \in Lanes :
        /\ pc[k] = "idle"
        /\ notes[k] = << "running", "failed" >>
        /\ \E id \in DOMAIN store :
              /\ Status(id) = "failed"
              /\ store[id].error = error_text(1)
              /\ store[id].target_kind = k

\* C9: no save writes back the old value of a field that another save
\* changed after the saved copy was loaded.
C9_NoLostUpdate == ~lost

SubmitCount(job_id) ==
    Cardinality({ p \in Lanes \X (1..MaxOps + 2) :
        p[2] <= Len(enqueued[p[1]]) /\ enqueued[p[1]][p[2]] = job_id })

\* Nothing is in flight: no handler is suspended, the queues are empty and
\* the workers wait for a job.
Quiescent ==
    /\ reqs = EmptyBag
    /\ \A k \in Lanes : queue[k] = << >> /\ pc[k] = "idle"

\* C11: a job for which no set_webhook was ever served (its record never
\* has a webhook_url) has no request made to a webhook, for any event.
C11_NoWebhookNoPush ==
    \A id \in Ids :
        log[id].hooks = {} => \A e \in Events : log[id].pushes[e] = 0

\* A job without webhook has run to its end while another job was pushed.
C11_Witness ==
    \E id \in Ids, other \in Ids :
        /\ log[id].hooks = {} /\ log[id].exits # {}
        /\ \E e \in Events : log[other].pushes[e] > 0

\* C12: a job that got a webhook for ["completed"] before it was submitted
\* (and no other webhook), was submitted once and whose run exited 0 has had
\* exactly one request made to the webhook, for the completed event.
C12_OnePushForCompleted ==
    \A id \in Ids :
        ( /\ log[id].hooks = {"completed", "early"}
          /\ SubmitCount(id) = 1
          /\ log[id].exits = {0} )
        => log[id].pushes = [e \in Events |-> IF e = "completed" THEN 1 ELSE 0]

\* C13: when nothing is in flight any more, a job that was submitted once
\* and for which a request to the webhook raised has run and has the status
\* of its exit code (completed for 0, failed otherwise), and its record
\* has webhook_last_error set.
C13_DeliveryFailureIsSoft ==
    \A id \in DOMAIN store :
        ( Quiescent /\ log[id].undelivered /\ SubmitCount(id) = 1 )
        => /\ log[id].exits \in {{0}, {1}}
           /\ Status(id) = IF log[id].exits = {0} THEN "completed" ELSE "failed"
           /\ store[id].webhook_last_error = "failed"

\* C14: a lane whose worker is idle and whose queue holds a job gets that
\* job's subprocess started, however long the subprocess of the other lane
\* runs; so with a job enqueued on each lane both subprocesses execute at
\* the same time unless one exits first.
C14_LanesRunSideBySide ==
    \A k \in Lanes : (pc[k] = "idle" /\ queue[k] # << >>) ~> (executing[k] = 1)

\* Both subprocesses are executing.
C14_Witness == \A k \in Lanes : executing[k] = 1

\* C15: every file of the store holds a complete record: no save leaves a
\* partly written record for a later load, not even when the process
\* crashes during the save.
C15_SavesAreAtomic == torn = {}

\* C16: while a record stays running its progress is in 0..100 and does not
\* decrease, whatever progress lines the engine prints.
C16_ProgressInRangeAndMonotone ==
    [][ \A id \in DOMAIN store :
          ( Status(id) = "running" /\ store'[id].status = "running" )
          => /\ store'[id].progress \in 0..100
             /\ store'[id].progress >= store[id].progress ]_vars

\* C17: a subscription never sends two equal snapshots in a row: a poll
\* sends its snapshot only if it differs from the last one sent, and the
\* first poll always sends.
C17_NoRepeatedSnapshot ==
    stream.state # "none" =>
        /\ stream.polled => stream.last_payload # << >>
        /\ stream.before # << >> => stream.before # stream.last_payload

\* The stream has sent two snapshots and the record has not changed since
\* the last one: the next poll sends nothing.
C17_Witness ==
    /\ stream.state = "open"
    /\ stream.before # << >>
    /\ stream.last_payload = <<job_to_response(store[stream.job_id])>>

\* The record the stream follows is completed, failed or cancelled.
StreamedJobEnded == Status(stream.job_id) \in {"completed", "failed", "cancelled"}

\* C18: a poll that reads a terminal status sends that snapshot and ends the
\* stream, an ended stream sends nothing more, and a connected stream does
\* not stay open for ever on a job that stays terminal.
C18_ClosesOnTerminal ==
    /\ [][ ( StreamPoll /\ StreamedJobEnded )
           => /\ stream'.state = "closed"
              /\ stream'.last_payload = <<job_to_response(store[stream.job_id])>> ]_vars
    /\ [][ stream.state \in {"closed", "disconnected"} => stream' = stream ]_vars
    /\ []<>~( stream.state = "open" /\ StreamedJobEnded )

\* The stream sent a running snapshot, then the completed one, and ended.
C18_Witness ==
    /\ stream.state = "closed"
    /\ stream.before # << >>
    /\ stream.last_payload[1].status = "completed"

\* C19: a get, upload, submit, set_webhook, cancel or subscribe that names an
\* id without a record is answered 404, and it creates no record, enqueues
\* nothing, opens no stream and changes no record.
C19_MissingJobIsNotFound ==
    [][ MissingNext
        => /\ code' = 404
           /\ UNCHANGED << store, laneVars, reqs, histVars, stream >> ]_vars

\* Such a request was answered while records exist and a job is queued.
C19_Witness ==
    /\ code = 404
    /\ Ids \ DOMAIN store # {}
    /\ DOMAIN store # {}
    /\ \E k \in Lanes : queue[k] # << >>

\* A request fails before its job is put on a lane: a submit without source
\* or target or with a failing engine call, a target of the wrong kind, a
\* target video that is too large or too long.
EarlyError ==
    /\ UNCHANGED restVars
    /\ \/ \E u \in Users, id \in DOMAIN store :
              \/ submit_job(u, id, FALSE)
              \/ ~submit_allowed(store[id]) /\ submit_job(u, id, TRUE)
              \/ \E kind \in (Lanes \cup {"other"}) \ {store[id].target_kind} :
                     upload_target_begin(u, id, kind)
       \/ \E req \in Suspended("upload_target"), verdict \in Verdicts \ {"ok"} :
              upload_target_end(req, verdict)

\* C20: a request that fails before its job enters a lane is answered with an
\* error and leaves both queues and every persisted record as they were.
C20_EarlyErrorChangesNothing ==
    [][ EarlyError => code' >= 400 /\ UNCHANGED << store, queue >> ]_vars

\* C21: a job-run subprocess is started once per enqueue of a job id: never
\* more often than the id was put on a queue and, when nothing is in flight,
\* exactly as often; and an id is put on a queue only by a client's request.
C21_NoAutomaticRetry ==
    /\ [](\A id \in Ids : log[id].runs <= SubmitCount(id))
    /\ [](Quiescent => \A id \in Ids : log[id].runs = SubmitCount(id))
    /\ [][ \A k \in Lanes : enqueued'[k] # enqueued[k] => left' < left ]_vars

\* A job has failed, nothing is in flight and it was run once; another job
\* was submitted twice and run twice.
C21_Witness ==
    /\ Quiescent
    /\ \E id \in DOMAIN store :
           Status(id) = "failed" /\ SubmitCount(id) = 1 /\ log[id].runs = 1
    /\ \E id \in DOMAIN store : SubmitCount(id) = 2 /\ log[id].runs = 2

\* C22: every creation of a job yields an id no record has yet: it adds a
\* record and overwrites none.
C22_JobIdIsNeverReused ==
    [][ ( AnyCreateJob \/ AnyQuickJob )
        => /\ DOMAIN store' # DOMAIN store
           /\ \A id \in DOMAIN store : store'[id].owner_id = store[id].owner_id ]_vars

\* C23: a record's target_kind is video iff its mode starts with
\* photo_video, else image, and no step changes the job_id, owner_id, mode or
\* target_kind of a record.
C23_IdentityIsFixed ==
    /\ [](\A id \in DOMAIN store :
            /\ store[id].job_id = id
            /\ store[id].target_kind =
                  IF store[id].mode[1] = "photo" /\ store[id].mode[2] = "video"
                  THEN "video" ELSE "image")
    /\ [][ \A id \in DOMAIN store :
             /\ store'[id].job_id = store[id].job_id
             /\ store'[id].owner_id = store[id].owner_id
             /\ store'[id].mode = store[id].mode
             /\ store'[id].target_kind = store[id].target_kind ]_vars

\* A video job got its uploads, was submitted, ran to its exit and was
\* cancelled.
C23_Witness ==
    \E id \in DOMAIN store :
        /\ store[id].target_kind = "video"
        /\ store[id].source_path # Null /\ store[id].target_path # Null
        /\ log[id].exits # {}
        /\ Status(id) = "cancelled"

\* What the line is to yield: the word and the number's value when the word
\* is one of the six verbs and is followed by a colon, a gap, a number and a
\* percent sign; else what the rest of the line holds; else nothing.
Expected(parts) ==
    IF /\ parts.word.name \in {"analysing", "extracting", "processing",
                                "merging", "restoring", "finalizing"}
       /\ parts.colon # << >>
       /\ parts.gap # << >>
       /\ parts.number.chars # << >>
       /\ parts.sign # << >>
    THEN << parts.word.name, parts.number.value >>
    ELSE IF Len(parts.rest) > 6 THEN << "merging", 7 >>
    ELSE << >>

\* C24: parse_progress yields (stage, percent) exactly for the lines that
\* hold a verb, ':', whitespace, a decimal number and '%', the number as it
\* is, and no match for every other line.
C24_ParseProgress ==
    stdout.state = "parsed" => stdout.parsed = Expected(stdout.parts)

\* "finalizing: 100%" was parsed to ("finalizing", 100).
C24_Witness ==
    /\ stdout.state = "parsed"
    /\ line_of(stdout.parts) =
          <<"f","i","n","a","l","i","z","i","n","g",":"," ","1","0","0","%">>
    /\ stdout.parsed = << "finalizing", 100 >>

\* C25: no step takes a record from completed or failed to cancelled.
C25_CancelOnlyFromNonTerminal ==
    [][ \A id \in DOMAIN store :
          Status(id) \in {"completed", "failed"} => store'[id].status # "cancelled" ]_vars

C27_WorkerTransitions ==
    [][ \A k \in Lanes :
          /\ ( pc[k] = "idle" /\ pc'[k] \in {"post_running", "executor"} )
             => /\ store'[wjob'[k].job_id].status = "running"
                /\ store'[wjob'[k].job_id].stage = Null
                /\ store'[wjob'[k].job_id].progress = 0
                /\ notes'[k] = << "running" >>
                /\ pc'[k] = "post_running" => executing'[k] = executing[k]
          /\ executing'[k] > executing[k]
             => /\ notes'[k] = << "running" >>
                /\ started'[k] # << >>
                /\ started'[k][Len(started'[k])] = wjob'[k].job_id
          /\ ( pc[k] = "executor" /\ run[k] = "exit0" /\ pc'[k] \in {"post_final", "idle"} )
             => /\ store'[wjob[k].job_id].status = "completed"
                /\ store'[wjob[k].job_id].progress = 100
                /\ store'[wjob[k].job_id].output_path # Null
                /\ notes'[k] = << "running", "completed" >> ]_vars

\* A submission one of whose three engine calls fails, in the API and in the bot.
EngineFailed ==
    \/ \E u \in Users, id \in Ids : submit_job(u, id, FALSE) /\ UNCHANGED restVars
    \/ \E u \in Users, m \in RequestModes, id \in Ids :
           quick_job(u, m, id, "engine_failed") /\ UNCHANGED restVars
    \/ \E k \in Lanes : handle_mode_button(k, FALSE)

C29_LoopNeverBlocksOnEngine ==
    /\ \/ loop # << >>
       \/ \E k \in Lanes : executing[k] > 0
    /\ \/ left > 0 /\ FreshIds # {}
       \/ \E k \in Lanes : pc[k] = "idle" /\ queue[k] # << >>
    => ENABLED LoopStep

\* C30: every id on the queue of a lane belongs to a record whose target_kind
\* is that lane and whose source_path and target_path are both set.
C30_QueuedIdsMatchLane ==
    \A k \in Lanes :
        \A i \in 1..Len(queue[k]) :
            /\ Exists(queue[k][i])
            /\ load_job(queue[k][i]).target_kind = k
            /\ load_job(queue[k][i]).source_path # Null
            /\ load_job(queue[k][i]).target_path # Null

C32_EveryQueuedJobEnds ==
    /\ \A k \in Lanes : <>[](queue[k] = << >>)
    /\ \A id \in Ids :
           /\ (Exists(id) /\ Status(id) = "queued") ~>
                  (Exists(id) /\ Status(id) \in {"completed", "failed"})
           /\ <>[](Exists(id) => Status(id) \notin {"queued", "running"})

\* C33: an operation on a job called by a user who is not the owner of the
\* record is answered with 403 and changes nothing: not the records, not
\* the queues, no upload is begun, no stream of events is opened and no
\* engine call or push is made.
C33_OwnerIsolation ==
    [][\/ /\ code' = 403
           /\ UNCHANGED << store, laneVars, reqs, histVars, stream, left >>
        \/ ~OtherUserCall]_vars

\* A user who is not the owner was refused while the subprocesses of both
\* lanes executed.
C33_Witness ==
    /\ code = 403
    /\ \A k \in Lanes : executing[k] > 0

\* C34: the status of a record that was never put on a queue tells which
\* artifacts are attached: waiting_source iff there is no source,
\* waiting_target iff there is a source and no target, ready iff there are
\* both.
C34_StatusReflectsArtifacts ==
    \A id \in DOMAIN store :
        SubmitCount(id) = 0 =>
            /\ Status(id) = "waiting_source" <=> store[id].source_path = Null
            /\ Status(id) = "waiting_target" <=>
                   store[id].source_path # Null /\ store[id].target_path = Null
            /\ Status(id) = "ready" <=>
                   store[id].source_path # Null /\ store[id].target_path # Null

\* C35: a job for which set_webhook was served, for all events, before its
\* run ended has the webhook in its record after the terminal save, and a
\* request for the terminal event is made to the webhook.
C35_WebhookSurvivesRun ==
    [][\A k \in Lanes :
          (finished'[k] # finished[k] /\ "all" \in log[wjob[k].job_id].hooks) =>
              LET id == wjob[k].job_id
                  event == store'[id].status
              IN  /\ store'[id].webhook_url # Null
                  /\ event \in {"completed", "failed"}
                  /\ \/ log'[id].pushes[event] > log[id].pushes[event]
                     \/ log[id].pushes[event] = MaxPushes]_vars

\* The job was subscribed to all events whenever it was submitted: only
\* subscriptions to all events were registered for it, and each of its
\* submissions made a request for the queued event.
SubscribedWhenQueued(id) ==
    /\ "all" \in log[id].hooks
    /\ "completed" \notin log[id].hooks
    /\ \/ log[id].pushes["queued"] = SubmitCount(id)
       \/ log[id].pushes["queued"] = MaxPushes

\* The requests made for the terminal events of the job.
TerminalPushes(l, id) == l[id].pushes["completed"] + l[id].pushes["failed"]

DeliveryFailed ==
    /\ UNCHANGED restVars
    /\ \/ \E req \in Suspended("submit") : submit_post_done(req, FALSE)
       \/ \E k \in Lanes : WorkerPostRunning(k, FALSE) \/ WorkerPostFinal(k, FALSE)

\* C37: the write made when a request to the webhook fails changes only
\* webhook_last_error: status, stage, progress, output_path and error of
\* every persisted record are what they were before the write.
C37_FailureWriteIsNarrow ==
    [][DeliveryFailed =>
           \A id \in DOMAIN store :
               \A f \in {"status", "stage", "progress", "output_path", "error"} :
                   store'[id][f] = store[id][f]]_vars

\* C38: a subscription registered with an empty list of events produces no
\* pushes: after set_webhook was served with payload.events = [] for a
\* job, send_webhook makes no request for any event of the record.
C38_EmptyListMeansNoPush ==
    [][\A id \in DOMAIN store :
          ( /\ left' < left
            /\ UNCHANGED restVars
            /\ set_webhook(store[id].owner_id, id, TRUE, listed(<<{}>>)) )
          => \A e \in Events : ~will_post(store'[id], e)]_vars

\* C39: every persisted record has a mode of ALLOWED_MODES and the target
\* kind of that mode, and a create request whose mode is not in
\* ALLOWED_MODES gets an error response and writes no record.
C39_UnknownModeIsRejected ==
    /\ [](\A id \in DOMAIN store :
            /\ store[id].mode \in ALLOWED_MODES
            /\ store[id].target_kind = allowed_target_kind(store[id].mode))
    /\ [][\A u \in Users, id \in Ids, m \in RequestModes \ ALLOWED_MODES :
            (create_job(u, m, id) /\ UNCHANGED restVars) =>
                code' >= 400 /\ store' = store]_vars

====
